---- MODULE Spec2Model ----
(***************************************************************************)
(* Model of main.py: the price scraper's field extraction, page scrape,    *)
(* filter, pagination and aggregation loop.                                *)
(*                                                                         *)
(* Text is a sequence of one-character strings, so that strip(), lower(),  *)
(* replace(",", ""), "in" and re.search() are computed, not assumed.       *)
(* An optional value (None, a failed find_element) is the empty sequence   *)
(* <<>>; a present value v is <<v>>.                                       *)
(***************************************************************************)
EXTENDS Integers, Sequences, FiniteSets, TLC

VARIABLES
    \* scrape_amazon_prices: arguments, locals, the browser session
    pc, max_pages, max_products, min_price, max_price, title_contains,
    driver, dom, current_page, all_products, page_products,
    outcome, result, raisedIn,
    scrapes, navs, quits, lateOps, nav, accAtNav,
    \* _scrape_products_on_current_page: locals
    product_elements, page_number, index, products, skipped_due_to_errors,
    \* _parse_price_block: argument and return value
    product_element, price_block,
    \* _apply_filters: return value (its arguments are products, min_price, ...)
    filtered

loopVars == <<pc, max_pages, max_products, driver, dom, current_page,
              all_products, page_products, outcome, result, raisedIn,
              scrapes, navs, quits, lateOps, nav, accAtNav>>
filterArgs == <<min_price, max_price, title_contains>>
scrapeVars == <<product_elements, page_number, index, products,
                skipped_due_to_errors>>
priceVars == <<product_element, price_block>>
vars == <<loopVars, filterArgs, scrapeVars, priceVars, filtered>>

----------------------------------------------------------------------------
(* Bounds *)

MaxPages == 3        \* largest max_pages argument tried
MaxProducts == 3     \* largest max_products argument tried
MaxElements == 2     \* most product containers on one page
MaxBatch == 2        \* longest record list handed to _apply_filters

----------------------------------------------------------------------------
(* Optional values *)

None == <<>>
Some(v) == <<v>>
IsNone(o) == o = <<>>
Get(o) == o[1]

----------------------------------------------------------------------------
(* Text *)

Whitespace == {" "}
Digits == {"0", "1", "2", "3", "4", "5", "6", "7", "8", "9"}
DigitChars == <<"0", "1", "2", "3", "4", "5", "6", "7", "8", "9">>
DigitVal(c) == (CHOOSE i \in 1..10 : DigitChars[i] = c) - 1

RECURSIVE LStrip(_)
LStrip(s) ==
    IF s = <<>> THEN s
    ELSE IF Head(s) \in Whitespace THEN LStrip(Tail(s)) ELSE s

RECURSIVE RStrip(_)
RStrip(s) ==
    IF s = <<>> THEN s
    ELSE IF s[Len(s)] \in Whitespace THEN RStrip(SubSeq(s, 1, Len(s) - 1)) ELSE s

\* str.strip()
Strip(s) == RStrip(LStrip(s))

\* str.replace(",", "")
IsNotComma(c) == c # ","
RemoveCommas(s) == SelectSeq(s, IsNotComma)

\* str.lower()
LowerChar(c) ==
    CASE c = "A" -> "a"
      [] c = "B" -> "b"
      [] c = "P" -> "p"
      [] OTHER -> c
Lower(s) == [i \in 1..Len(s) |-> LowerChar(s[i])]

\* needle in hay
Contains(hay, needle) ==
    \E i \in 0..(Len(hay) - Len(needle)) :
        SubSeq(hay, i + 1, i + Len(needle)) = needle

\* f"{whole}.{fraction}"
JoinPrice(whole, fraction) == whole \o <<".">> \o fraction

----------------------------------------------------------------------------
(* re.search(r"([€$£])\s?(\d[\d,]*\.\d{2})", text)                         *)

Glyphs == {"€", "$", "£"}

CharAt(t, i) == IF i >= 1 /\ i <= Len(t) THEN t[i] ELSE ""

\* last position of the maximal run of [\d,] characters starting at j
\* (j - 1 when the run is empty)
RECURSIVE RunEnd(_, _)
RunEnd(t, j) ==
    IF CharAt(t, j) \in Digits \cup {","} THEN RunEnd(t, j + 1) ELSE j - 1

\* \d[\d,]*\.\d{2} anchored at j: the matched text, or <<>> when it fails.
\* The run [\d,]* is greedy; a shorter run would have to be followed by ".",
\* but is followed by a run character, so backtracking never succeeds.
MatchNumberAt(t, j) ==
    IF CharAt(t, j) \notin Digits THEN <<>>
    ELSE LET e == RunEnd(t, j + 1) IN
         IF /\ CharAt(t, e + 1) = "."
            /\ CharAt(t, e + 2) \in Digits
            /\ CharAt(t, e + 3) \in Digits
         THEN SubSeq(t, j, e + 3)
         ELSE <<>>

\* the whole pattern anchored at i: the number matched, or <<>>
MatchAt(t, i) ==
    IF CharAt(t, i) \notin Glyphs THEN <<>>
    ELSE IF CharAt(t, i + 1) \in Whitespace
         THEN MatchNumberAt(t, i + 2)
         ELSE MatchNumberAt(t, i + 1)

\* leftmost match: <<>> or <<[currency_char, numeric]>>
RegexSearch(t) ==
    LET hits == {i \in 1..Len(t) : MatchAt(t, i) # <<>>} IN
    IF hits = {} THEN None
    ELSE LET i == CHOOSE k \in hits : \A m \in hits : k <= m IN
         Some([currency_char |-> <<t[i]>>, numeric |-> MatchAt(t, i)])

----------------------------------------------------------------------------
(* _parse_price_block                                                      *)
(* A product container offers, for each selector the code queries, the     *)
(* text of the first match or None when find_element raises                *)
(* NoSuchElementException.                                                 *)

NoPrice == [price |-> None, currency |-> None]
PriceOf(p, c) == [price |-> Some(p), currency |-> Some(c)]

\* lines 94-104: the whole/fraction structure, None when either part is missing
WholeFraction(e) ==
    IF IsNone(e.whole) \/ IsNone(e.fraction) THEN None
    ELSE Some(JoinPrice(Strip(RemoveCommas(Get(e.whole))), Strip(Get(e.fraction))))

\* lines 116-124
RegexFallback(e) ==
    LET match == RegexSearch(e.text) IN
    IF IsNone(match) THEN NoPrice
    ELSE PriceOf(RemoveCommas(Get(match).numeric), Get(match).currency_char)

\* lines 93-124, reached when the offscreen text is empty
AfterOffscreen(e) ==
    LET price_value == WholeFraction(e) IN
    IF IsNone(price_value) THEN NoPrice
    ELSE LET currency == IF IsNone(e.symbol) THEN <<>> ELSE Strip(Get(e.symbol)) IN
         IF Get(price_value) # <<>> /\ currency # <<>>
         THEN PriceOf(Get(price_value), currency)
         ELSE RegexFallback(e)

ParsePriceBlock(e) ==
    IF ~e.price_container THEN NoPrice
    ELSE LET offscreen_text ==
                 IF IsNone(e.offscreen) THEN <<>> ELSE Strip(Get(e.offscreen)) IN
         IF offscreen_text # <<>>
         THEN PriceOf(RemoveCommas(Strip(Tail(offscreen_text))),
                      <<Head(offscreen_text)>>)
         ELSE AfterOffscreen(e)

----------------------------------------------------------------------------
(* float(product.price)                                                    *)
(* A value is num / 10^scale.  The texts of this model are made of digits, *)
(* ".", ",", blanks, currency glyphs and a few letters, none of which      *)
(* spells a sign, an exponent, an underscore, "inf" or "nan"; on such text *)
(* float() accepts exactly  digits [ "." digits* ]  and  "." digits        *)
(* between optional surrounding blanks, and raises ValueError otherwise.   *)

RECURSIVE DigitsToInt(_)
DigitsToInt(s) ==
    IF s = <<>> THEN 0
    ELSE 10 * DigitsToInt(SubSeq(s, 1, Len(s) - 1)) + DigitVal(s[Len(s)])

RECURSIVE Pow10(_)
Pow10(k) == IF k = 0 THEN 1 ELSE 10 * Pow10(k - 1)

IsDigitChar(c) == c \in Digits

ParseFloat(s) ==
    LET t == Strip(s)
        dots == {i \in 1..Len(t) : t[i] = "."}
        ds == SelectSeq(t, IsDigitChar)
    IN  IF \/ \E i \in 1..Len(t) : t[i] \notin Digits \cup {"."}
           \/ Cardinality(dots) > 1
           \/ ds = <<>>
        THEN None
        ELSE LET scale == IF dots = {} THEN 0
                          ELSE Len(t) - (CHOOSE i \in dots : TRUE) IN
             Some([num |-> DigitsToInt(ds), scale |-> scale])

\* value < bound and value > bound, the bound given in hundredths
Below(value, bound) == value.num * 100 < bound * Pow10(value.scale)
Above(value, bound) == value.num * 100 > bound * Pow10(value.scale)

----------------------------------------------------------------------------
(* _apply_filters                                                          *)
(* min_price and max_price are None or Some(hundredths); title_contains is *)
(* None or Some(text).                                                     *)

\* "not title_contains": None and "" are both falsy
NoTitleQuery(tc) == IsNone(tc) \/ Get(tc) = <<>>

\* one pass of the loop body, lines 242-257: TRUE when the record is appended
KeepProduct(product, minp, maxp, tc) ==
    LET value == ParseFloat(product.price) IN
    /\ NoTitleQuery(tc) \/ Contains(Lower(product.title), Lower(Get(tc)))
    /\ ~IsNone(value)
    /\ IsNone(minp) \/ ~Below(Get(value), Get(minp))
    /\ IsNone(maxp) \/ ~Above(Get(value), Get(maxp))

RECURSIVE FilterLoop(_, _, _, _)
FilterLoop(ps, minp, maxp, tc) ==
    IF ps = <<>> THEN <<>>
    ELSE (IF KeepProduct(Head(ps), minp, maxp, tc) THEN <<Head(ps)>> ELSE <<>>)
         \o FilterLoop(Tail(ps), minp, maxp, tc)

ApplyFilters(ps, minp, maxp, tc) ==
    IF IsNone(minp) /\ IsNone(maxp) /\ NoTitleQuery(tc) THEN ps
    ELSE FilterLoop(ps, minp, maxp, tc)

----------------------------------------------------------------------------
(* _scrape_products_on_current_page                                        *)

Product(title, url, price, currency, page, position) ==
    [title |-> title, url |-> url, price |-> price, currency |-> currency,
     page |-> page, position |-> position]

\* lines 160-164: "h2 span", else "h2"; None when both lookups raise
TitleElement(e) == IF ~IsNone(e.h2_span) THEN e.h2_span ELSE e.h2

\* lines 166-171: "a.a-link-normal.s-link-style", else "a.a-link-normal"
LinkElement(e) == IF ~IsNone(e.link_style) THEN e.link_style ELSE e.link_normal

\* "not price": None and "" are both falsy
PriceMissingNoneOnly(price) == IsNone(price)
PriceMissing(price) == IsNone(price) \/ Get(price) = <<>>

\* "not title or not product_url"
TitleOrUrlMissing(title, product_url) ==
    title = <<>> \/ IsNone(product_url) \/ Get(product_url) = <<>>

\* the body of the for loop for one container, lines 159-197:
\*   "error"    an exception reached "except Exception" (counted),
\*   "continue" the container was passed over by a continue (not counted),
\*   "record"   a Product was appended.
Extract(e, idx, page) ==
    IF IsNone(TitleElement(e)) \/ IsNone(LinkElement(e))
    THEN [kind |-> "error"]
    ELSE LET title == Strip(Get(TitleElement(e)))
             product_url == Get(LinkElement(e))
             parsed == ParsePriceBlock(e)
         IN  IF TitleOrUrlMissing(title, product_url) THEN [kind |-> "continue"]
             ELSE IF PriceMissing(parsed.price) THEN [kind |-> "continue"]
             ELSE [kind |-> "record",
                   product |-> Product(title, Get(product_url), Get(parsed.price),
                                       Get(parsed.currency), page, idx)]

\* the effect of one container on (products, skipped_due_to_errors)
ScrapeElementDense(acc, e, idx, page) ==
    LET x == Extract(e, Len(acc.products) + 1, page) IN
    CASE x.kind = "record" ->
             [products |-> Append(acc.products, x.product), skipped |-> acc.skipped]
      [] x.kind = "error" ->
             [products |-> acc.products, skipped |-> acc.skipped + 1]
      [] OTHER -> acc
ScrapeElementCountsContinue(acc, e, idx, page) ==
    LET x == Extract(e, idx, page) IN
    CASE x.kind = "record" ->
             [products |-> Append(acc.products, x.product), skipped |-> acc.skipped]
      [] OTHER -> [products |-> acc.products, skipped |-> acc.skipped + 1]
ScrapeElement(acc, e, idx, page) ==
    LET x == Extract(e, idx, page) IN
    CASE x.kind = "record" ->
             [products |-> Append(acc.products, x.product), skipped |-> acc.skipped]
      [] x.kind = "error" ->
             [products |-> acc.products, skipped |-> acc.skipped + 1]
      [] OTHER -> acc

\* the for loop over enumerate(product_elements, start=1), from index idx on
RECURSIVE ScrapeFrom(_, _, _, _)
ScrapeFrom(acc, es, idx, page) ==
    IF idx > Len(es) THEN acc
    ELSE ScrapeFrom(ScrapeElement(acc, es[idx], idx, page), es, idx + 1, page)

ScrapeProducts(es, page) ==
    ScrapeFrom([products |-> <<>>, skipped |-> 0], es, 1, page).products

----------------------------------------------------------------------------
(* Inputs: page content the browser may serve                              *)

SeqsUpTo(S, n) == UNION {[1..k -> S] : k \in 0..n}

Title1 == <<"P", " ", "1">>
Title2 == <<"P", " ", "2">>
Title3 == <<"P", " ", "3">>
Url1 == <<"u", "1">>
Url2 == <<"u", "2">>
Url3 == <<"u", "3">>
Usd1999 == <<"$", "1", "9", ".", "9", "9">>
Eur1999 == <<"1", "9", ",", "9", "9", " ", "€">>          \* "19,99 €"
Usd1299 == <<" ", "$", "1", ",", "2", "9", "9", ".", "0", "0", " ">>
TextUsd1999 == Title1 \o <<" ">> \o Usd1999
TextSpaced == Title1 \o <<" ", "$", " ", "1", ",", "2", "9", "9", ".", "0", "0">>
TextSecond == <<"€", "5", ".", "5", " ", "£", "7", ".", "2", "5", "9">>
TextTwoBlanks == <<"$", " ", " ", "9", ".", "9", "9">>

Element(hs, h, ls, ln, pcn, off, wh, fr, sym, tx) ==
    [h2_span |-> hs, h2 |-> h, link_style |-> ls, link_normal |-> ln,
     price_container |-> pcn, offscreen |-> off,
     whole |-> wh, fraction |-> fr, symbol |-> sym, text |-> tx]

Link(url) == Some(Some(url))

\* the three listings of the test page: offscreen price, whole/fraction
\* price, no price element
Listing1 ==
    Element(Some(Title1), Some(Title1), Link(Url1), Link(Url1), TRUE,
            Some(Usd1999), Some(<<"1", "9">>), Some(<<"9", "9">>), Some(<<"$">>),
            TextUsd1999)
Listing2 ==
    Element(Some(Title2), Some(Title2), Link(Url2), Link(Url2), TRUE,
            None, Some(<<"4", "2">>), Some(<<"5", "0">>), Some(<<"$">>),
            Title2 \o <<" ", "$", "4", "2", "5", "0">>)
Listing3 ==
    Element(Some(Title3), Some(Title3), Link(Url3), Link(Url3), FALSE,
            None, None, None, None, Title3)

\* other layouts
NoHeading ==        \* neither "h2 span" nor "h2"
    [Listing1 EXCEPT !.h2_span = None, !.h2 = None]
BlankTitle ==       \* a heading whose text is blank
    [Listing1 EXCEPT !.h2_span = Some(<<" ">>)]
HeadingOnly ==      \* "h2" and "a.a-link-normal" only, price as "19,99 €"
    Element(None, Some(<<" ">> \o Title2 \o <<" ">>), None, Link(Url2), TRUE,
            Some(Eur1999), None, None, None, Title2 \o <<" ">> \o Eur1999)
NoLink ==           \* no anchor at all
    [Listing2 EXCEPT !.link_style = None, !.link_normal = None]
NoHref ==           \* an anchor without href
    [Listing2 EXCEPT !.link_style = Some(None)]
GlyphOnly ==        \* offscreen text is the bare currency symbol
    [Listing1 EXCEPT !.offscreen = Some(<<"$">>)]
NoSymbol ==         \* whole and fraction without a symbol element
    Element(Some(Title1), Some(Title1), Link(Url1), Link(Url1), TRUE,
            None, Some(<<"1", ",", "2", "9", "9">>), Some(<<"0", "0">>), None,
            TextSpaced)
EmptyBlock ==       \* a price container with nothing usable in it
    [Listing3 EXCEPT !.price_container = TRUE]
Twenty ==           \* priced exactly 20.00
    [Listing2 EXCEPT !.whole = Some(<<"2", "0">>), !.fraction = Some(<<"0", "0">>)]

ScrapeElements ==
    {Listing1, Listing2, Listing3, NoHeading, BlankTitle, HeadingOnly,
     NoLink, NoHref, GlyphOnly, NoSymbol, EmptyBlock}

\* price blocks: every combination of what the price container may hold
PriceElements ==
    {[Listing1 EXCEPT !.price_container = pcn, !.offscreen = off, !.whole = wh,
                      !.fraction = fr, !.symbol = sym, !.text = tx] :
        pcn \in BOOLEAN,
        off \in {None, Some(<<>>), Some(Usd1999), Some(Usd1299), Some(Eur1999)},
        wh \in {None, Some(<<"4", "2">>), Some(<<"1", ",", "2", "9", "9">>)},
        fr \in {None, Some(<<"5", "0">>)},
        sym \in {None, Some(<<" ">>), Some(<<"$">>)},
        tx \in {Title1, TextUsd1999, TextSpaced, TextSecond, TextTwoBlanks}}

\* record lists handed to the filter: what the page scrape yields
FilterSources == {Listing1, Listing2, HeadingOnly, Twenty}
FilterBatches == {ScrapeProducts(es, 1) : es \in SeqsUpTo(FilterSources, MaxBatch)}
Query1 == <<"p", " ", "1">>
TitleQueries == {None, Some(<<>>), Some(Query1), Some(<<"P">>)}
PriceBounds == {None, Some(2000), Some(4250)}

----------------------------------------------------------------------------
(* Values of the variables a specification does not use *)

NoNav == [ctl |-> "absent", ops |-> <<>>, result |-> "none"]
NoDom == [elements |-> <<>>, next |-> "absent"]

LoopIdle ==
    /\ max_pages = 1 /\ max_products = None
    /\ driver = "none" /\ dom = NoDom /\ current_page = 1
    /\ all_products = <<>> /\ page_products = <<>>
    /\ outcome = "none" /\ result = <<>> /\ raisedIn = "none"
    /\ scrapes = 0 /\ navs = 0 /\ quits = 0 /\ lateOps = 0
    /\ nav = NoNav /\ accAtNav = <<>>
ScrapeIdle ==
    /\ product_elements = <<>> /\ page_number = 1 /\ index = 0
    /\ products = <<>> /\ skipped_due_to_errors = 0
PriceIdle == product_element = Listing3 /\ price_block = NoPrice
FilterArgsIdle == min_price = None /\ max_price = None /\ title_contains = None

----------------------------------------------------------------------------
(* SpecPrice: _parse_price_block on every price block *)

InitPrice ==
    /\ pc = "parse_call"
    /\ product_element \in PriceElements
    /\ price_block = NoPrice
    /\ LoopIdle /\ ScrapeIdle /\ FilterArgsIdle /\ filtered = <<>>

ParseCall ==
    /\ pc = "parse_call"
    /\ price_block' = ParsePriceBlock(product_element)
    /\ pc' = "parse_return"
    /\ UNCHANGED <<product_element, max_pages, max_products, driver, dom,
                   current_page, all_products, page_products, outcome, result,
                   raisedIn, scrapes, navs, quits, lateOps, nav, accAtNav,
                   filterArgs, scrapeVars, filtered>>

NextPrice == ParseCall
SpecPrice == InitPrice /\ [][NextPrice]_vars

----------------------------------------------------------------------------
(* SpecFilter: _apply_filters on every scraped batch and predicate set *)

InitFilter ==
    /\ pc = "filter_call"
    /\ products \in FilterBatches
    /\ min_price \in PriceBounds
    /\ max_price \in PriceBounds
    /\ title_contains \in TitleQueries
    /\ filtered = <<>>
    /\ product_elements = <<>> /\ page_number = 1 /\ index = 0
    /\ skipped_due_to_errors = 0
    /\ LoopIdle /\ PriceIdle

FilterCall ==
    /\ pc = "filter_call"
    /\ filtered' = ApplyFilters(products, min_price, max_price, title_contains)
    /\ pc' = "filter_return"
    /\ UNCHANGED <<max_pages, max_products, driver, dom,
                   current_page, all_products, page_products, outcome, result,
                   raisedIn, scrapes, navs, quits, lateOps, nav, accAtNav,
                   filterArgs, scrapeVars, priceVars>>

NextFilter == FilterCall
SpecFilter == InitFilter /\ [][NextFilter]_vars

----------------------------------------------------------------------------
(* SpecScrape: _scrape_products_on_current_page, one container per step *)

InitScrape ==
    /\ pc = "scrape_loop"
    /\ product_elements \in SeqsUpTo(ScrapeElements, MaxElements)
    /\ page_number \in 1..MaxPages
    /\ index = 0
    /\ products = <<>>
    /\ skipped_due_to_errors = 0
    /\ LoopIdle /\ PriceIdle /\ FilterArgsIdle /\ filtered = <<>>

\* one iteration of the for loop, lines 155-197
ScrapeOne ==
    /\ pc = "scrape_loop"
    /\ index < Len(product_elements)
    /\ LET acc == ScrapeElement([products |-> products,
                                 skipped |-> skipped_due_to_errors],
                                product_elements[index + 1], index + 1, page_number)
       IN  /\ products' = acc.products
           /\ skipped_due_to_errors' = acc.skipped
    /\ index' = index + 1
    /\ UNCHANGED <<pc, product_elements, page_number, max_pages, max_products,
                   driver, dom, current_page, all_products, page_products,
                   outcome, result, raisedIn, scrapes, navs, quits, lateOps,
                   nav, accAtNav, filterArgs, priceVars, filtered>>

\* lines 199-204
ScrapeReturn ==
    /\ pc = "scrape_loop"
    /\ index = Len(product_elements)
    /\ pc' = "scrape_return"
    /\ UNCHANGED <<max_pages, max_products, driver, dom,
                   current_page, all_products, page_products, outcome, result,
                   raisedIn, scrapes, navs, quits, lateOps, nav, accAtNav,
                   filterArgs, scrapeVars, priceVars, filtered>>

NextScrape == ScrapeOne \/ ScrapeReturn
SpecScrape == InitScrape /\ [][NextScrape]_vars

----------------------------------------------------------------------------
(* _wait_for_product_elements and _go_to_next_page                         *)
(* The browser decides what each call does: "ok", or "raise" for an error  *)
(* the code has no handler for (a crashed driver, a stale element).        *)

Outcomes == {"ok", "raise"}
Behaviours == [find : Outcomes, script : Outcomes, click : Outcomes, wait : Outcomes]

\* lines 129-139: the wait ends when a product container is present; a
\* TimeoutException is caught, any other error propagates
WaitForProductElements(elements, behaviour) ==
    IF behaviour = "raise" THEN "raise"
    ELSE IF Len(elements) >= 1 THEN "ready" ELSE "timeout"

\* lines 210-213: the XPath matches a control that carries s-pagination-next
\* and does not carry s-pagination-disabled
NextButtonDisabledToo(ctl) == ctl # "absent"
NextButtonFound(ctl) == ctl = "enabled"

\* lines 218-221: execute_script, and next_button.click() if that raises
Activate(b) ==
    IF b.script = "ok" THEN <<"script:ok">>
    ELSE IF b.click = "ok" THEN <<"script:raise", "click:ok">>
    ELSE <<"script:raise", "click:raise">>

\* the whole of _go_to_next_page on a page whose next control is ctl and
\* whose successor page holds the given elements: the browser calls made,
\* in order, and NO_NEXT (False), HAS_NEXT (True) or "raised"
GoToNextPage(ctl, b, elements) ==
    IF b.find = "raise" THEN [ops |-> <<"find:raise">>, result |-> "raised"]
    ELSE IF ~NextButtonFound(ctl)
    THEN [ops |-> <<"find:none">>, result |-> "NO_NEXT"]
    ELSE LET act == <<"find:ok">> \o Activate(b)
             waited == WaitForProductElements(elements, b.wait)
         IN  IF act[Len(act)] = "click:raise"
             THEN [ops |-> act, result |-> "raised"]
             ELSE [ops |-> Append(act, "wait:" \o waited),
                   result |-> IF waited = "raise" THEN "raised" ELSE "HAS_NEXT"]

----------------------------------------------------------------------------
(* scrape_amazon_prices                                                    *)

\* line 304
ProductLimitReached(all, maxp) == ~IsNone(maxp) /\ Len(all) >= Get(maxp)

\* line 305: all_products[:max_products]
TruncateNothing(all, m) == all
Truncate(all, m) == SubSeq(all, 1, m)

\* line 308
PageLimitOffByOne(cp, maxpg) == cp > maxpg
PageLimitReached(cp, maxpg) == cp >= maxpg

\* lines 317-320: return runs the finally block and hands back the list
OnReturn(acc) == [pc |-> "finally", outcome |-> "returned", result |-> acc]

\* lines 274, 319-320: there is no except clause; an exception runs the
\* finally block and reaches the caller, so no list is handed back
OnExceptionSwallowed(acc) == [pc |-> "finally", outcome |-> "returned", result |-> acc]
OnExceptionNoFinally(acc) == [pc |-> "done", outcome |-> "raised", result |-> <<>>]
OnException(acc) == [pc |-> "finally", outcome |-> "raised", result |-> <<>>]

LoopPages == {<<>>, <<Listing1, Listing2, Listing3>>, <<Listing3, Listing2>>}
Doms == [elements : LoopPages, next : {"absent", "disabled", "enabled"}]
LoopFilters ==
    {[min |-> None, max |-> None, tc |-> None],
     [min |-> Some(2000), max |-> None, tc |-> None],
     [min |-> None, max |-> None, tc |-> Some(Query1)]}

pureVars == <<scrapeVars, priceVars, filtered>>
args == <<max_pages, max_products, filterArgs>>

\* a browser call made after driver.quit() is counted in lateOps
Late == IF driver = "quit" THEN 1 ELSE 0

Init ==
    /\ pc = "create"
    /\ max_pages \in 1..MaxPages
    /\ max_products \in {None} \cup {Some(m) : m \in 1..MaxProducts}
    /\ \E f \in LoopFilters :
           min_price = f.min /\ max_price = f.max /\ title_contains = f.tc
    /\ driver = "none" /\ dom = NoDom /\ current_page = 1
    /\ all_products = <<>> /\ page_products = <<>>
    /\ outcome = "none" /\ result = <<>> /\ raisedIn = "none"
    /\ scrapes = 0 /\ navs = 0 /\ quits = 0 /\ lateOps = 0
    /\ nav = NoNav /\ accAtNav = <<>>
    /\ ScrapeIdle /\ PriceIdle /\ filtered = <<>>

\* an exception raised inside the try block by the step named where
Raise(where) ==
    LET x == OnException(all_products) IN
    /\ pc' = x.pc
    /\ outcome' = x.outcome
    /\ result' = x.result
    /\ raisedIn' = where

\* line 272, outside the try block
CreateDriver ==
    /\ pc = "create"
    /\ \/ /\ driver' = "open"
          /\ pc' = "get"
          /\ UNCHANGED <<outcome, raisedIn>>
       \/ /\ pc' = "done"
          /\ outcome' = "raised"
          /\ raisedIn' = "create"
          /\ UNCHANGED driver
    /\ UNCHANGED <<args, dom, current_page, all_products, page_products, result,
                   scrapes, navs, quits, lateOps, nav, accAtNav, pureVars>>

\* line 275
GetUrl ==
    /\ pc = "get"
    /\ lateOps' = lateOps + Late
    /\ \/ /\ dom' \in Doms
          /\ pc' = "wait"
          /\ UNCHANGED <<outcome, result, raisedIn>>
       \/ /\ Raise("get")
          /\ UNCHANGED dom
    /\ UNCHANGED <<args, driver, current_page, all_products, page_products,
                   scrapes, navs, quits, nav, accAtNav, pureVars>>

\* line 277
WaitFirstPage ==
    /\ pc = "wait"
    /\ lateOps' = lateOps + Late
    /\ \E behaviour \in Outcomes :
          IF WaitForProductElements(dom.elements, behaviour) = "raise"
          THEN Raise("wait")
          ELSE pc' = "dump" /\ UNCHANGED <<outcome, result, raisedIn>>
    /\ UNCHANGED <<args, driver, dom, current_page, all_products, page_products,
                   scrapes, navs, quits, nav, accAtNav, pureVars>>

\* lines 281-289: the debug copy (a failure is caught), then the loop's locals
DebugDump ==
    /\ pc = "dump"
    /\ lateOps' = lateOps + Late
    /\ all_products' = <<>>
    /\ current_page' = 1
    /\ pc' = "loop"
    /\ UNCHANGED <<args, driver, dom, page_products, outcome, result, raisedIn,
                   scrapes, navs, quits, nav, accAtNav, pureVars>>

\* lines 292-302: scrape the page, filter its records, extend the accumulator
ScrapePage ==
    /\ pc = "loop"
    /\ lateOps' = lateOps + Late
    /\ \/ /\ page_products' =
                 ApplyFilters(ScrapeProducts(dom.elements, current_page),
                              min_price, max_price, title_contains)
          /\ all_products' = all_products \o page_products'
          /\ scrapes' = scrapes + 1
          /\ pc' = "limits"
          /\ UNCHANGED <<outcome, result, raisedIn>>
       \/ /\ Raise("scrape")
          /\ UNCHANGED <<page_products, all_products, scrapes>>
    /\ UNCHANGED <<args, driver, dom, current_page, navs, quits, nav, accAtNav,
                   pureVars>>

\* lines 304-309
CheckLimits ==
    /\ pc = "limits"
    /\ IF ProductLimitReached(all_products, max_products)
       THEN /\ all_products' = Truncate(all_products, Get(max_products))
            /\ pc' = "return"
       ELSE /\ pc' = IF PageLimitReached(current_page, max_pages)
                     THEN "return" ELSE "next"
            /\ UNCHANGED all_products
    /\ UNCHANGED <<args, driver, dom, current_page, page_products, outcome, result,
                   raisedIn, scrapes, navs, quits, lateOps, nav, accAtNav, pureVars>>

\* lines 311-315
NextPage ==
    /\ pc = "next"
    /\ lateOps' = lateOps + Late
    /\ navs' = navs + 1
    /\ accAtNav' = all_products
    /\ \E b \in Behaviours, d \in Doms :
          LET r == GoToNextPage(dom.next, b, d.elements) IN
          /\ nav' = [ctl |-> dom.next, ops |-> r.ops, result |-> r.result]
          /\ dom' = IF r.ops[Len(r.ops)] \in {"find:raise", "find:none"}
                    THEN dom ELSE d
          /\ CASE r.result = "NO_NEXT" ->
                      /\ pc' = "return"
                      /\ UNCHANGED <<current_page, outcome, result, raisedIn>>
               [] r.result = "HAS_NEXT" ->
                      /\ current_page' = current_page + 1
                      /\ pc' = "loop"
                      /\ UNCHANGED <<outcome, result, raisedIn>>
               [] OTHER ->
                      /\ Raise("next")
                      /\ UNCHANGED current_page
    /\ UNCHANGED <<args, driver, all_products, page_products, scrapes, quits,
                   pureVars>>

\* lines 317-318
Return ==
    /\ pc = "return"
    /\ LET x == OnReturn(all_products) IN
       /\ pc' = x.pc
       /\ outcome' = x.outcome
       /\ result' = x.result
    /\ UNCHANGED <<args, driver, dom, current_page, all_products, page_products,
                   raisedIn, scrapes, navs, quits, lateOps, nav, accAtNav, pureVars>>

\* lines 319-320: driver.quit().  webdriver.Chrome.quit() swallows the errors
\* of the quit command, so the call is taken to complete and the pending
\* return value or exception stands.
Finally ==
    /\ pc = "finally"
    /\ quits' = quits + 1
    /\ driver' = "quit"
    /\ pc' = "done"
    /\ UNCHANGED <<args, dom, current_page, all_products, page_products, outcome,
                   result, raisedIn, scrapes, navs, lateOps, nav, accAtNav, pureVars>>

Next ==
    \/ CreateDriver
    \/ GetUrl
    \/ WaitFirstPage
    \/ DebugDump
    \/ ScrapePage
    \/ CheckLimits
    \/ NextPage
    \/ Return
    \/ Finally

Spec == Init /\ [][Next]_vars

----------------------------------------------------------------------------
(* Properties of the aggregation loop (Spec)                               *)

IsPrefix(a, b) == Len(a) <= Len(b) /\ SubSeq(b, 1, Len(a)) = a

\* C1: with max_pages = N >= 1, whatever the browser does (a next control
\* may be enabled on every page), one invocation scrapes at most N pages and
\* makes at most N - 1 next-page navigations.
C1_PageBound ==
    max_pages >= 1 => scrapes <= max_pages /\ navs <= max_pages - 1

\* the page limit stopped a run whose last page still offered a next page
C1_Witness ==
    /\ pc = "done" /\ outcome = "returned"
    /\ max_pages >= 2 /\ scrapes = max_pages /\ navs = max_pages - 1
    /\ nav.result = "HAS_NEXT" /\ dom.next = "enabled"

\* C2: with max_products = M >= 1, once the accumulator holds at least M
\* records after a page was filtered and appended, the loop leaves for the
\* return with exactly the first M accumulated records, in order; from there
\* on nothing is scraped or navigated and that list is what is returned; and
\* no returned list is longer than M.
C2_Step ==
    ~IsNone(max_products) =>
        LET M == Get(max_products) IN
        /\ pc = "limits" /\ Len(all_products) >= M =>
               /\ pc' = "return"
               /\ all_products' = SubSeq(all_products, 1, M)
               /\ scrapes' = scrapes /\ navs' = navs
        /\ pc = "return" =>
               /\ outcome' = "returned" /\ result' = all_products
               /\ scrapes' = scrapes /\ navs' = navs
        /\ pc = "finally" =>
               /\ pc' = "done" /\ result' = result /\ outcome' = outcome
               /\ scrapes' = scrapes /\ navs' = navs
        /\ pc' = "done" /\ outcome' = "returned" => Len(result') <= M
C2_ProductLimit == [][C2_Step]_vars

\* the first page alone held more than M records, more pages were allowed
\* and offered, and exactly M records came back
C2_Witness ==
    /\ pc = "done" /\ outcome = "returned" /\ ~IsNone(max_products)
    /\ Len(result) = Get(max_products)
    /\ Len(page_products) > Len(result)
    /\ scrapes = 1 /\ navs = 0 /\ max_pages > 1 /\ dom.next = "enabled"

\* C3 as claimed: if at least one page was completed and a later pagination
\* step raises an error that is not one of the handled cases, the records
\* accumulated so far are still returned.
C3_Original ==
    pc = "done" /\ scrapes >= 1 /\ raisedIn = "next" =>
        outcome = "returned" /\ result = accAtNav

\* C3 as amended: after at least one completed page, a pagination step that
\* ends in a handled case keeps the accumulated records (NO_NEXT returns
\* them; after HAS_NEXT, a timed-out readiness wait included, they are a
\* prefix of whatever is returned); an error it raises reaches the caller
\* after the session is torn down and no list is returned.
C3_Amended ==
    pc = "done" /\ scrapes >= 1 /\ navs >= 1 =>
        /\ nav.result = "NO_NEXT" => outcome = "returned" /\ result = accAtNav
        /\ nav.result = "HAS_NEXT" /\ outcome = "returned" => IsPrefix(accAtNav, result)
        /\ raisedIn = "next" =>
               nav.result = "raised" /\ outcome = "raised" /\ result = <<>> /\ quits = 1

\* a page with records was completed and the next pagination step raised
C3_Witness ==
    /\ pc = "done" /\ raisedIn = "next" /\ accAtNav # <<>>
    /\ nav.ops[Len(nav.ops)] = "click:raise"

\* C4: once the session is acquired it is torn down exactly once on every
\* exit path, a return or an exception from any step, and no browser call
\* follows the teardown.
C4_Teardown ==
    /\ quits <= 1
    /\ lateOps = 0
    /\ driver = "open" => quits = 0 /\ pc \notin {"create", "done"}
    /\ driver = "quit" => quits = 1 /\ pc = "done"
    /\ pc = "done" /\ raisedIn # "create" => driver = "quit" /\ quits = 1
    /\ pc = "done" /\ raisedIn = "create" => driver = "none" /\ quits = 0

\* an exception out of the page scrape, after a navigation, was followed by
\* the teardown
C4_Witness ==
    /\ pc = "done" /\ outcome = "raised" /\ raisedIn = "scrape"
    /\ navs >= 1 /\ quits = 1 /\ driver = "quit"

\* C10: the pagination controller reports NO_NEXT exactly when no next
\* control is present and enabled, and then it has made no call but the
\* lookup; when there is one it activates it (click() only after
\* execute_script raised), then waits, then reports HAS_NEXT, whether the
\* wait found products or timed out.
C10_Pagination ==
    nav.result # "none" =>
        /\ nav.result = "NO_NEXT" => nav.ctl # "enabled" /\ nav.ops = <<"find:none">>
        /\ nav.ctl # "enabled" /\ nav.result # "raised" => nav.result = "NO_NEXT"
        /\ nav.ctl = "enabled" /\ nav.result # "raised" => nav.result = "HAS_NEXT"
        /\ nav.result = "HAS_NEXT" =>
               /\ nav.ctl = "enabled"
               /\ \E w \in {"wait:ready", "wait:timeout"} :
                      nav.ops \in {<<"find:ok", "script:ok", w>>,
                                   <<"find:ok", "script:raise", "click:ok", w>>}
               /\ nav.ops[Len(nav.ops)] = "wait:ready" <=> Len(dom.elements) >= 1
        /\ \A i \in 1..Len(nav.ops) :
               nav.ops[i] \in {"click:ok", "click:raise"} =>
                   i > 1 /\ nav.ops[i - 1] = "script:raise"

\* HAS_NEXT after the fallback click and a readiness wait that timed out
C10_Witness ==
    /\ nav.result = "HAS_NEXT"
    /\ nav.ops = <<"find:ok", "script:raise", "click:ok", "wait:timeout">>
    /\ pc = "loop"

----------------------------------------------------------------------------
(* Properties of the filter (SpecFilter)                                   *)

\* the predicates as the contract states them: an absent one holds of every
\* record, a price bound holds of a record whose price parses and is within
Satisfies(product, minp, maxp, tc) ==
    LET value == ParseFloat(product.price) IN
    /\ NoTitleQuery(tc) \/ Contains(Lower(product.title), Lower(Get(tc)))
    /\ IsNone(minp) \/ (~IsNone(value) /\ ~Below(Get(value), Get(minp)))
    /\ IsNone(maxp) \/ (~IsNone(value) /\ ~Above(Get(value), Get(maxp)))

\* C5: the filter returns exactly the records satisfying every supplied
\* predicate, in input order; with title_contains alone that is every record
\* whose title contains the query, case-insensitively, whatever its price.
C5_ExactSubset ==
    pc = "filter_return" =>
        filtered = SelectSeq(products,
                       LAMBDA p : Satisfies(p, min_price, max_price, title_contains))

----------------------------------------------------------------------------
(* Properties of the page scrape (SpecScrape)                              *)

Scraping == pc \in {"scrape_loop", "scrape_return"}

\* the container has a title and a URL
HasTitleAndUrl(e) ==
    /\ ~IsNone(TitleElement(e)) /\ Strip(Get(TitleElement(e))) # <<>>
    /\ ~IsNone(LinkElement(e)) /\ ~IsNone(Get(LinkElement(e)))
    /\ Get(Get(LinkElement(e))) # <<>>

\* the container has no offscreen span, no whole/fraction pair and no text
\* the pattern matches
LacksPrice(e) ==
    /\ IsNone(e.offscreen)
    /\ IsNone(e.whole) \/ IsNone(e.fraction)
    /\ IsNone(RegexSearch(e.text))

Positions == {products[k].position : k \in 1..Len(products)}

\* C6: every record carries the page number passed in and the 1-based
\* document index of its own container; skipped containers keep their
\* index, and records come in strictly increasing position.
C6_Positions ==
    Scraping =>
        /\ \A k \in 1..Len(products) :
               /\ products[k].page = page_number
               /\ products[k].position \in 1..index
               /\ LET e == product_elements[products[k].position] IN
                  /\ products[k].title = Strip(Get(TitleElement(e)))
                  /\ products[k].url = Get(Get(LinkElement(e)))
        /\ \A k \in 1..(Len(products) - 1) :
               products[k].position < products[k + 1].position
        /\ Positions = {i \in 1..index :
                            /\ HasTitleAndUrl(product_elements[i])
                            /\ ~PriceMissing(ParsePriceBlock(product_elements[i]).price)}

\* a record at position 2 behind a skipped container
C6_Witness ==
    /\ pc = "scrape_return" /\ Len(products) = 1
    /\ products[1].position = 2 /\ products[1].page = page_number
    /\ page_number >= 2

\* C7: every record has a non-empty trimmed title, a non-empty url and a
\* non-empty price, and a container whose price is undetectable has none.
C7_Fields ==
    Scraping =>
        /\ \A k \in 1..Len(products) :
               /\ products[k].title # <<>>
               /\ products[k].title = Strip(products[k].title)
               /\ products[k].url # <<>>
               /\ products[k].price # <<>>
        /\ \A i \in 1..index :
               LET p == ParsePriceBlock(product_elements[i]).price IN
               IsNone(p) \/ Get(p) = <<>> => i \notin Positions

\* a page with a record whose title had to be trimmed, next to a container
\* whose price text is the bare symbol
C7_Witness ==
    /\ pc = "scrape_return"
    /\ product_elements = <<GlyphOnly, HeadingOnly>>
    /\ Len(products) = 1

\* the loop is about to process a container that has a title and a URL and
\* no detectable price
AtUnpriced ==
    /\ pc = "scrape_loop" /\ index < Len(product_elements)
    /\ HasTitleAndUrl(product_elements[index + 1])
    /\ LacksPrice(product_elements[index + 1])

\* C8 as claimed: such a container yields no record, the skip counter goes
\* up by exactly 1, and the scrape goes on with the next container.
C8_Original ==
    [][AtUnpriced =>
          /\ products' = products
          /\ skipped_due_to_errors' = skipped_due_to_errors + 1
          /\ index' = index + 1 /\ pc' = "scrape_loop"]_vars

\* C8 as amended: such a container yields no record and leaves the skip
\* counter as it is (the counter counts only containers whose extraction
\* raised), and the scrape goes on with the next container.
C8_Amended ==
    [][AtUnpriced =>
          /\ products' = products
          /\ skipped_due_to_errors' = skipped_due_to_errors
          /\ index' = index + 1 /\ pc' = "scrape_loop"]_vars

\* an unpriced container was passed over uncounted and the container after
\* it gave a record
C8_Witness ==
    /\ pc = "scrape_return" /\ Len(product_elements) >= 2
    /\ HasTitleAndUrl(product_elements[1]) /\ LacksPrice(product_elements[1])
    /\ skipped_due_to_errors = 0
    /\ Len(products) = 1 /\ products[1].position = 2

----------------------------------------------------------------------------
(* Properties of the price block (SpecPrice)                               *)

\* the whole/fraction step returns a price
WholeFractionYields(e) ==
    /\ ~IsNone(e.whole) /\ ~IsNone(e.fraction)
    /\ ~IsNone(e.symbol) /\ Strip(Get(e.symbol)) # <<>>

OffscreenYields(e) == ~IsNone(e.offscreen) /\ Strip(Get(e.offscreen)) # <<>>

\* C9: the fallback chain stops at the first success: when the price
\* container exists, the offscreen text is absent or empty and the
\* whole/fraction step yields nothing, the pattern is tried on the text, and
\* a match gives (first glyph, number without commas); the price is
\* undetectable only when no step yields a result.
C9_FallbackChain ==
    pc = "parse_return" /\ product_element.price_container
    /\ ~OffscreenYields(product_element) /\ ~WholeFractionYields(product_element)
    => LET match == RegexSearch(product_element.text) IN
       IF IsNone(match) THEN price_block = NoPrice
       ELSE price_block = PriceOf(RemoveCommas(Get(match).numeric),
                                  Get(match).currency_char)

====
